---- MODULE Spec2Model ----
(***************************************************************************)
(* Model of the slivka python client: the TaskWatcher polling thread       *)
(* (src/slivka_client.py), the Job status cache (src/slivka_client/job.py),*)
(* the JobState classification with the notebook job monitor               *)
(* (src/slivka_client/__init__.py, src/slivka_client/nb.py), the field     *)
(* validators (src/slivka_client/__init__.py, src/form_fields.py) and the  *)
(* Form classes (src/slivka_client/form.py, src/slivka_client/__init__.py, *)
(* src/slivka_client.py) and the files command of the command line         *)
(* (src/slivka_client/__main__.py).                                        *)
(***************************************************************************)
EXTENDS Integers, FiniteSets, Sequences, TLC

\* ------------------------------------------------------------------------
\* Bounds
\* ------------------------------------------------------------------------
\* number of distinct completion listener callables
MaxListeners == 2

Listeners == 1..MaxListeners

VARIABLES
    \* --- TaskWatcher (threading.Thread) and its Task -------------------
    wpc,              \* position of the watcher thread inside run()
    listeners,        \* TaskWatcher._listeners (a set)
    interrupt_event,  \* flag of TaskWatcher._interrupt_event
    cached_status,    \* Task._cached_status: "none" or "ready"
    status,           \* local `status` of run(): "unset", "notready", "ready"
    iter_used,        \* size of _listeners recorded by the set iterator
    iter_seen,        \* listeners the set iterator has already yielded
    calls,            \* number of invocations of each listener
    \* --- a caller thread in TaskWatcher.get_status() -------------------
    gpc,              \* "idle", or "inflight" while its request is unanswered
    \* --- a caller thread in TaskWatcher.wait(timeout) ------------------
    wait_pc,          \* "idle" or "blocked"
    wait_result,      \* "none", "true", "false": value returned by the last wait
    wait_from,        \* history: where the watcher was when wait() was called
    \* --- history of the calls made on the watcher ----------------------
    h_pre,            \* listeners registered before start()
    h_late,           \* listeners registered after the notification loop ran
    h_intr,           \* interrupt() has been called
    h_intr_started,   \* interrupt() has been called after start()
    h_intr_early,     \* interrupt() called after start(), before a ready status was observed
    h_fetch_after,    \* get_status calls begun by run() after an interrupt (capped at 2)
    h_error,          \* a status fetch of run() raised HTTPException
    h_raised,         \* a completion listener raised
    h_at_finish,      \* the listeners registered when the notification began
    \* --- Job (slivka_client/job.py) and the service's record of it -----
    now,                  \* datetime.now(), in seconds
    job_status,           \* Job._status
    job_completion_time,  \* Job._completion_time, NoTime for None
    poll_timestamp,       \* Job._poll_timestamp
    srv_status,           \* the status the service reports
    srv_completion_time,  \* the completionTime the service reports, NoTime for null
    h_seen_finished,      \* a read of Job.status has returned a finished status
    h_req_after_finished, \* a read issued a request after that
    h_req_at,             \* time the last request was issued, NoTime for none
    h_req_prev_ok,        \* h_last_ok when the last request was issued
    h_last_ok,            \* time of the last successful reload, or of construction
    h_hit_at,             \* time of the last read served without a request, NoTime for none
    \* --- NotebookForm.jobs and its monitor_job_state tasks -------------
    mon_pc,               \* position of each job's monitor_job_state task
    mon_state,            \* jobs[job_id]['state']
    \* --- one field and one candidate handed to its validate -----------
    fld,                  \* the field
    cand,                 \* the candidate value
    result,               \* what the last call of validate returned or raised
    \* --- a Form template and its copies ------------------------------
    generation,           \* the Form class in use
    fields,               \* Form._fields, in the order of the schema
    forms,                \* the Form objects that exist
    values,               \* Form._values of each
    heap,                 \* the list objects the caller holds
    ret,                  \* what the last call on a form returned or raised
    \* --- the files command of the command line -----------------------
    download,             \* --download / --no-download
    overwrite,            \* --overwrite: "yes", "no" or "prompt"
    job_files,            \* file.path of each of job.files
    disk,                 \* the paths that exist, files and directories
    cli_pc,               \* index of the file the loop is at; 0 when an exception ended it
    existed,              \* history: what os.path.exists(fp) returned for each file
    answer,               \* history: what click.confirm returned for each file
    outcome               \* history: "written", "skipped" or "failed" for each file

jvars == <<now, job_status, job_completion_time, poll_timestamp, srv_status,
           srv_completion_time, h_seen_finished, h_req_after_finished, h_req_at,
           h_req_prev_ok, h_last_ok, h_hit_at>>

nvars == <<mon_pc, mon_state>>

wvars == <<wpc, listeners, interrupt_event, cached_status, status, iter_used,
           iter_seen, calls, gpc, wait_pc, wait_result, wait_from, h_pre, h_late,
           h_intr, h_intr_started, h_intr_early, h_fetch_after, h_error,
           h_raised, h_at_finish>>

fieldvars == <<fld, cand, result>>

formvars == <<generation, fields, forms, values, heap, ret>>

clivars == <<download, overwrite, job_files, disk, cli_pc, existed, answer, outcome>>

fvars == <<fieldvars, formvars, clivars>>

vars == <<wvars, jvars, nvars, fvars>>

\* what the steps of the watcher leave alone
others == <<jvars, nvars, fvars>>

BoolStr(b) == IF b THEN "true" ELSE "false"

\* ------------------------------------------------------------------------
\* TaskWatcher
\* ------------------------------------------------------------------------
WatcherInit ==
    /\ wpc = "idle"
    /\ listeners = {}
    /\ interrupt_event = FALSE
    /\ cached_status = "none"
    /\ status = "unset"
    /\ iter_used = 0
    /\ iter_seen = {}
    /\ calls = [l \in Listeners |-> 0]
    /\ gpc = "idle"
    /\ wait_pc = "idle"
    /\ wait_result = "none"
    /\ wait_from = "other"
    /\ h_pre = {}
    /\ h_late = {}
    /\ h_intr = FALSE
    /\ h_intr_started = FALSE
    /\ h_intr_early = FALSE
    /\ h_fetch_after = 0
    /\ h_error = FALSE
    /\ h_raised = FALSE
    /\ h_at_finish = {}

\* the thread has left run(), normally or with an exception
Terminated == wpc \in {"done", "failed", "raised"}

\* the poll loop was left through `break` (Finished or Interrupted)
Stopped == wpc \in {"exit", "notify", "done", "raised"}

hvars == <<h_pre, h_late, h_intr, h_intr_started, h_intr_early, h_fetch_after,
           h_error, h_raised, h_at_finish>>
waitvars == <<wait_pc, wait_result, wait_from>>
callervars == <<gpc, wait_pc, wait_result, wait_from>>
itervars == <<iter_used, iter_seen, calls>>

\* Thread.start(): the thread is created; run() has not executed yet
Start ==
    /\ wpc = "idle"
    /\ wpc' = "started"
    /\ UNCHANGED others
    /\ UNCHANGED <<listeners, interrupt_event, cached_status, status, itervars, callervars, hvars>>

\* TaskWatcher.add_completion_listener, called from any thread at any time
add_completion_listener(l) ==
    /\ listeners' = listeners \cup {l}
    /\ h_pre' = IF wpc = "idle" THEN h_pre \cup {l} ELSE h_pre
    /\ h_late' = IF wpc = "done" /\ status = "ready" /\ l \notin listeners
                   THEN h_late \cup {l} ELSE h_late
    /\ UNCHANGED others
    /\ UNCHANGED <<wpc, interrupt_event, cached_status, status, itervars, callervars,
                   h_intr, h_intr_started, h_intr_early, h_fetch_after, h_error,
                   h_raised, h_at_finish>>

AddListener == \E l \in Listeners : add_completion_listener(l)

\* TaskWatcher.interrupt, called from any thread at any time
interrupt ==
    /\ interrupt_event' = TRUE
    /\ h_intr' = TRUE
    /\ h_intr_started' = (h_intr_started \/ wpc # "idle")
    /\ h_intr_early' = (h_intr_early \/ (wpc # "idle" /\ status # "ready"))
    /\ UNCHANGED others
    /\ UNCHANGED <<wpc, listeners, cached_status, status, itervars, callervars,
                   h_pre, h_late, h_fetch_after, h_error, h_raised, h_at_finish>>

\* run(), line 346: self._interrupt_event.clear()
RunClear ==
    /\ wpc = "started"
    /\ interrupt_event' = FALSE
    /\ wpc' = "fetch"
    /\ UNCHANGED others
    /\ UNCHANGED <<listeners, cached_status, status, itervars, callervars, hvars>>

\* run(), line 348 entering Task.get_status: a cached status is returned
\* without a request, otherwise the GET request is sent
GetStatusBegin ==
    /\ wpc = "fetch"
    /\ IF cached_status # "none"
         THEN /\ status' = cached_status
              /\ wpc' = "check"
         ELSE /\ status' = status
              /\ wpc' = "inflight"
    /\ h_fetch_after' = IF h_intr_started /\ h_fetch_after < 2
                          THEN h_fetch_after + 1 ELSE h_fetch_after
    /\ UNCHANGED others
    /\ UNCHANGED <<listeners, interrupt_event, cached_status, itervars, callervars,
                   h_pre, h_late, h_intr, h_intr_started, h_intr_early, h_error,
                   h_raised, h_at_finish>>

\* the failed fetch is tried again by the loop (the retry the source does
\* not do)
GetStatusError_retries ==
    /\ wpc' = "fetch"
    /\ h_error' = TRUE
    /\ UNCHANGED others
    /\ UNCHANGED <<listeners, interrupt_event, cached_status, status, itervars, callervars,
                   h_pre, h_late, h_intr, h_intr_started, h_intr_early, h_fetch_after,
                   h_raised, h_at_finish>>

\* Task.get_status, lines 302-303: a response other than 200 raises
\* HTTPException, which nothing in run() catches: the thread ends
GetStatusError ==
    /\ wpc' = "failed"
    /\ h_error' = TRUE
    /\ UNCHANGED others
    /\ UNCHANGED <<listeners, interrupt_event, cached_status, status, itervars, callervars,
                   h_pre, h_late, h_intr, h_intr_started, h_intr_early, h_fetch_after,
                   h_raised, h_at_finish>>

\* Task.get_status, lines 291-303: the response of the service arrives
GetStatusEnd(resp) ==
    /\ wpc = "inflight"
    /\ IF resp = "error"
         THEN GetStatusError
         ELSE /\ status' = resp
              /\ cached_status' = IF resp = "ready" THEN "ready" ELSE cached_status
              /\ wpc' = "check"
              /\ UNCHANGED others
              /\ UNCHANGED <<listeners, interrupt_event, itervars, callervars, hvars>>

GetStatusResponse == \E resp \in {"notready", "ready", "error"} : GetStatusEnd(resp)

\* run(), lines 349-350: if status.ready: self._interrupt_event.set()
RunCheckReady ==
    /\ wpc = "check"
    /\ interrupt_event' = IF status = "ready" THEN TRUE ELSE interrupt_event
    /\ wpc' = "wait"
    /\ UNCHANGED others
    /\ UNCHANGED <<listeners, cached_status, status, itervars, callervars, hvars>>

\* run(), line 351: self._interrupt_event.wait(1) returns, set or timed out
RunWait ==
    /\ wpc = "wait"
    /\ wpc' = "test"
    /\ UNCHANGED others
    /\ UNCHANGED <<listeners, interrupt_event, cached_status, status, itervars, callervars, hvars>>

\* run(), lines 352-353: if self._interrupt_event.is_set(): break
RunTest ==
    /\ wpc = "test"
    /\ wpc' = IF interrupt_event THEN "exit" ELSE "fetch"
    /\ UNCHANGED others
    /\ UNCHANGED <<listeners, interrupt_event, cached_status, status, itervars, callervars, hvars>>

\* the event is cleared again when the loop is left (a reset the source
\* does not do)
RunExit_clears ==
    /\ wpc = "exit"
    /\ interrupt_event' = FALSE
    /\ IF status = "ready"
         THEN /\ wpc' = "notify"
              /\ iter_used' = Cardinality(listeners)
              /\ iter_seen' = {}
              /\ h_at_finish' = listeners
         ELSE /\ wpc' = "done"
              /\ UNCHANGED <<iter_used, iter_seen, h_at_finish>>
    /\ UNCHANGED others
    /\ UNCHANGED <<listeners, cached_status, status, calls, callervars,
                   h_pre, h_late, h_intr, h_intr_started, h_intr_early, h_fetch_after,
                   h_error, h_raised>>

\* run(), lines 354-355: if status.ready: iter(self._listeners)
RunExit ==
    /\ wpc = "exit"
    /\ IF status = "ready"
         THEN /\ wpc' = "notify"
              /\ iter_used' = Cardinality(listeners)
              /\ iter_seen' = {}
              /\ h_at_finish' = listeners
         ELSE /\ wpc' = "done"
              /\ UNCHANGED <<iter_used, iter_seen, h_at_finish>>
    /\ UNCHANGED others
    /\ UNCHANGED <<listeners, interrupt_event, cached_status, status, calls, callervars,
                   h_pre, h_late, h_intr, h_intr_started, h_intr_early, h_fetch_after,
                   h_error, h_raised>>

\* the call listener(self._task) of line 356; an exception raised by the
\* listener is not caught and leaves run()
CallListener(l, raises) ==
    /\ calls' = [calls EXCEPT ![l] = @ + 1]
    /\ iter_seen' = iter_seen \cup {l}
    /\ h_raised' = (h_raised \/ raises)
    /\ wpc' = IF raises THEN "raised" ELSE "notify"

\* run(), lines 355-356: one step of `for listener in self._listeners`.
\* The set iterator raises RuntimeError when the set changed size since the
\* iterator was created; it yields the elements in an arbitrary order.
RunNotify ==
    /\ wpc = "notify"
    /\ IF Cardinality(listeners) # iter_used
         THEN /\ wpc' = "raised"
              /\ UNCHANGED <<iter_seen, calls, h_raised>>
         ELSE IF iter_seen = listeners
                THEN /\ wpc' = "done"
                     /\ UNCHANGED <<iter_seen, calls, h_raised>>
                ELSE \E l \in listeners \ iter_seen : \E raises \in BOOLEAN :
                         CallListener(l, raises)
    /\ UNCHANGED others
    /\ UNCHANGED <<listeners, interrupt_event, cached_status, status, iter_used, callervars,
                   h_pre, h_late, h_intr, h_intr_started, h_intr_early, h_fetch_after,
                   h_error, h_at_finish>>

\* TaskWatcher.wait(timeout), line 362: Event.wait returns at once when the
\* flag is set, otherwise the caller blocks
WaitCall ==
    /\ wait_pc = "idle"
    /\ wait_from' = IF Stopped THEN "stopped" ELSE IF wpc = "failed" THEN "failed" ELSE "other"
    /\ IF interrupt_event
         THEN /\ wait_result' = "true"
              /\ wait_pc' = "idle"
         ELSE /\ wait_result' = "none"
              /\ wait_pc' = "blocked"
    /\ UNCHANGED others
    /\ UNCHANGED <<wpc, listeners, interrupt_event, cached_status, status, itervars, gpc, hvars>>

\* the blocked caller is woken by set() (returns True) or the timeout
\* elapses with the flag still unset (returns False)
WaitReturn ==
    /\ wait_pc = "blocked"
    /\ wait_result' = BoolStr(interrupt_event)
    /\ wait_pc' = "idle"
    /\ UNCHANGED others
    /\ UNCHANGED <<wpc, listeners, interrupt_event, cached_status, status, itervars,
                   gpc, wait_from, hvars>>

\* TaskWatcher.get_status called by another thread, lines 339-340 and
\* 288-291: the cached status is returned, or a request is sent
CallerGetStatusBegin ==
    /\ gpc = "idle"
    /\ gpc' = IF cached_status # "none" THEN "idle" ELSE "inflight"
    /\ UNCHANGED others
    /\ UNCHANGED <<wpc, listeners, interrupt_event, cached_status, status, itervars,
                   waitvars, hvars>>

\* Task.get_status, lines 292-303, in the caller's thread: a ready status
\* is cached; HTTPException is raised to the caller
CallerGetStatusEnd(resp) ==
    /\ gpc = "inflight"
    /\ gpc' = "idle"
    /\ cached_status' = IF resp = "ready" THEN "ready" ELSE cached_status
    /\ UNCHANGED others
    /\ UNCHANGED <<wpc, listeners, interrupt_event, status, itervars, waitvars, hvars>>

CallerGetStatusResponse ==
    \E resp \in {"notready", "ready", "error"} : CallerGetStatusEnd(resp)

\* the steps of the watcher thread
RunStep ==
    \/ RunClear
    \/ GetStatusBegin
    \/ GetStatusResponse
    \/ RunCheckReady
    \/ RunWait
    \/ RunTest
    \/ RunExit
    \/ RunNotify

\* ------------------------------------------------------------------------
\* JobState (slivka_client/__init__.py)
\* ------------------------------------------------------------------------
JobStates ==
    {"PENDING", "REJECTED", "ACCEPTED", "QUEUED", "RUNNING", "COMPLETED",
     "INTERRUPTED", "DELETED", "FAILED", "ERROR", "UNKNOWN"}

\* UNKNOWN is taken for a state that is still in progress
is_finished_unknown_open(s) ==
    s \notin {"PENDING", "ACCEPTED", "QUEUED", "RUNNING", "UNKNOWN"}

\* JobState.is_finished
is_finished(s) == s \notin {"PENDING", "ACCEPTED", "QUEUED", "RUNNING"}

\* ------------------------------------------------------------------------
\* Job (slivka_client/job.py)
\* ------------------------------------------------------------------------
\* _POLL_DELAY = timedelta(seconds=5)
POLL_DELAY == 5

\* the clock stops here
MaxTime == 13

\* longest time a request takes
MaxLatency == 1

\* None for a completion time; no request yet
NoTime == -1

\* the statuses the service reports for the job
JobServerStates == {"QUEUED", "RUNNING", "COMPLETED", "FAILED"}

\* Job.from_response: the handle is built from a response of the service
JobInit(s) ==
    /\ now = 0
    /\ srv_status = s
    /\ srv_completion_time = IF is_finished(s) THEN 0 ELSE NoTime
    /\ job_status = s
    /\ job_completion_time = IF is_finished(s) THEN 0 ELSE NoTime
    /\ poll_timestamp = 0
    /\ h_seen_finished = FALSE
    /\ h_req_after_finished = FALSE
    /\ h_req_at = NoTime
    /\ h_req_prev_ok = 0
    /\ h_last_ok = 0
    /\ h_hit_at = NoTime

\* time passes
Tick ==
    /\ now < MaxTime
    /\ now' = now + 1
    /\ UNCHANGED <<job_status, job_completion_time, poll_timestamp, srv_status,
                   srv_completion_time, h_seen_finished, h_req_after_finished,
                   h_req_at, h_req_prev_ok, h_last_ok, h_hit_at>>
    /\ UNCHANGED <<wvars, nvars, fvars>>

\* the service moves the job on; a finished job gets its completion time
ServiceStep ==
    /\ ~is_finished(srv_status)
    /\ \E s \in JobServerStates \ {srv_status} :
          /\ srv_status' = s
          /\ srv_completion_time' = IF is_finished(s) THEN now ELSE NoTime
    /\ UNCHANGED <<now, job_status, job_completion_time, poll_timestamp,
                   h_seen_finished, h_req_after_finished, h_req_at, h_req_prev_ok,
                   h_last_ok, h_hit_at>>
    /\ UNCHANGED <<wvars, nvars, fvars>>

\* the poll timestamp is compared with <= (a reload exactly at the delay)
Stale_inclusive == poll_timestamp + POLL_DELAY <= now

\* the test of Job.status and Job.completion_time, lines 32 and 38
Stale == poll_timestamp + POLL_DELAY < now

\* Job.reload: the request is issued now and answered d seconds later;
\* raise_for_status leaves the handle as it was when the request failed
reload(ok, d) ==
    /\ now + d <= MaxTime
    /\ now' = now + d
    /\ h_req_at' = now
    /\ h_req_prev_ok' = h_last_ok
    /\ h_req_after_finished' = (h_req_after_finished \/ h_seen_finished)
    /\ IF ok
         THEN /\ job_completion_time' = IF srv_completion_time # NoTime
                                          THEN srv_completion_time
                                          ELSE job_completion_time
              /\ job_status' = srv_status
              /\ poll_timestamp' = now + d
              /\ h_last_ok' = now + d
         ELSE UNCHANGED <<job_completion_time, job_status, poll_timestamp, h_last_ok>>

\* a read of the property Job.status
ReadStatus ==
    /\ IF Stale
         THEN \E ok \in BOOLEAN : \E d \in 0..MaxLatency :
                 /\ reload(ok, d)
                 /\ h_hit_at' = h_hit_at
                 /\ h_seen_finished' = (h_seen_finished \/ (ok /\ is_finished(job_status')))
         ELSE /\ h_hit_at' = now
              /\ h_seen_finished' = (h_seen_finished \/ is_finished(job_status))
              /\ UNCHANGED <<now, job_status, job_completion_time, poll_timestamp,
                             h_req_after_finished, h_req_at, h_req_prev_ok, h_last_ok>>
    /\ UNCHANGED <<srv_status, srv_completion_time>>
    /\ UNCHANGED <<wvars, nvars, fvars>>

\* a read of the property Job.completion_time
ReadCompletionTime ==
    /\ IF Stale
         THEN \E ok \in BOOLEAN : \E d \in 0..MaxLatency :
                 /\ reload(ok, d)
                 /\ h_hit_at' = h_hit_at
         ELSE /\ h_hit_at' = now
              /\ UNCHANGED <<now, job_status, job_completion_time, poll_timestamp,
                             h_req_after_finished, h_req_at, h_req_prev_ok, h_last_ok>>
    /\ UNCHANGED <<srv_status, srv_completion_time, h_seen_finished>>
    /\ UNCHANGED <<wvars, nvars, fvars>>

\* ------------------------------------------------------------------------
\* NotebookForm.monitor_job_state (slivka_client/nb.py)
\* ------------------------------------------------------------------------
\* number of jobs submitted from one notebook form
MaxJobs == 2

JobIds == 1..MaxJobs

NbInit ==
    /\ mon_pc = [j \in JobIds |-> "none"]
    /\ mon_state = [j \in JobIds |-> "PENDING"]

\* on_submit, lines 51-58: the job is recorded as PENDING and its monitor
\* task is created
Submit(j) ==
    /\ mon_pc[j] = "none"
    /\ mon_pc' = [mon_pc EXCEPT ![j] = "first"]
    /\ mon_state' = [mon_state EXCEPT ![j] = "PENDING"]
    /\ UNCHANGED <<wvars, jvars, fvars>>

\* SlivkaClient.get_job_state called from pc `at`: the service answers with
\* any state, or the request fails and the exception ends the task
get_job_state(j, at, r) ==
    /\ mon_pc[j] = at
    /\ IF r = "error"
         THEN /\ mon_pc' = [mon_pc EXCEPT ![j] = "failed"]
              /\ mon_state' = mon_state
         ELSE /\ mon_pc' = [mon_pc EXCEPT ![j] = "test"]
              /\ mon_state' = [mon_state EXCEPT ![j] = r]
    /\ UNCHANGED <<wvars, jvars, fvars>>

\* monitor_job_state, line 64
MonitorFirst == \E j \in JobIds : \E r \in JobStates \cup {"error"} : get_job_state(j, "first", r)

\* monitor_job_state, line 65: while not job['state'].is_finished()
MonitorTest ==
    \E j \in JobIds :
        /\ mon_pc[j] = "test"
        /\ mon_pc' = [mon_pc EXCEPT ![j] = IF is_finished(mon_state[j]) THEN "results" ELSE "sleep"]
        /\ UNCHANGED <<mon_state, wvars, jvars, fvars>>

\* monitor_job_state, line 66: await asyncio.sleep(1)
MonitorSleep ==
    \E j \in JobIds :
        /\ mon_pc[j] = "sleep"
        /\ mon_pc' = [mon_pc EXCEPT ![j] = "fetch"]
        /\ UNCHANGED <<mon_state, wvars, jvars, fvars>>

\* monitor_job_state, line 67
MonitorFetch == \E j \in JobIds : \E r \in JobStates \cup {"error"} : get_job_state(j, "fetch", r)

\* monitor_job_state, lines 68-69: the results are fetched and the task ends
MonitorResults ==
    \E j \in JobIds : \E ok \in BOOLEAN :
        /\ mon_pc[j] = "results"
        /\ mon_pc' = [mon_pc EXCEPT ![j] = IF ok THEN "done" ELSE "failed"]
        /\ UNCHANGED <<mon_state, wvars, jvars, fvars>>

NbSubmit == \E j \in JobIds : Submit(j)

\* ------------------------------------------------------------------------
\* Python values handed to the validators
\* ------------------------------------------------------------------------
\* a value is a record of its type (kind), its number (n) and its text (s)
None == [kind |-> "none", n |-> 0, s |-> ""]

\* bool is a subclass of int: True is 1 and False is 0
PyBool(b) == [kind |-> "bool", n |-> IF b THEN 1 ELSE 0, s |-> ""]

PyInt(i) == [kind |-> "int", n |-> i, s |-> ""]

\* floats are modelled on the grid of the integers
PyFloat(i) == [kind |-> "float", n |-> i, s |-> ""]

PyStr(t) == [kind |-> "str", n |-> 0, s |-> t]

\* a RemoteFile (FileHandler) object with its uuid
RemoteFile(uuid) == [kind |-> "file", n |-> 0, s |-> uuid]

\* the largest number offered as a candidate
MaxNum == 3

Candidates ==
    {None, PyBool(TRUE), PyBool(FALSE), RemoteFile("u1")}
        \cup {PyInt(i) : i \in 0..MaxNum}
        \cup {PyFloat(i) : i \in 0..MaxNum}
        \cup {PyStr(t) : t \in {"a", "A", "B", "ab"}}

\* a == b of Python: numbers compare by value, everything else by type and content
PyEq(a, b) ==
    IF a.kind \in {"int", "bool", "float"} /\ b.kind \in {"int", "bool", "float"}
    THEN a.n = b.n
    ELSE a = b

\* value in choices
PyIn(value, choices) == \E i \in 1..Len(choices) : PyEq(choices[i], value)

\* ------------------------------------------------------------------------
\* Field schemas
\* ------------------------------------------------------------------------
FormField(type, name, required, default) ==
    [type |-> type, name |-> name, required |-> required, default |-> default,
     min |-> None, max |-> None, min_exclusive |-> FALSE, max_exclusive |-> FALSE,
     min_length |-> None, max_length |-> None, choices |-> <<>>]

IntegerField(name, required, default, min, max) ==
    [FormField("integer", name, required, default) EXCEPT !.min = min, !.max = max]

DecimalField(name, required, default, min, min_exclusive, max, max_exclusive) ==
    [FormField("decimal", name, required, default) EXCEPT
        !.min = min, !.max = max,
        !.min_exclusive = min_exclusive, !.max_exclusive = max_exclusive]

TextField(name, required, default, min_length, max_length) ==
    [FormField("text", name, required, default) EXCEPT
        !.min_length = min_length, !.max_length = max_length]

BooleanField(name, required, default) == FormField("boolean", name, required, default)

ChoiceField(name, required, default, choices) ==
    [FormField("choice", name, required, default) EXCEPT !.choices = choices]

FileField(name, required, default) == FormField("file", name, required, default)

\* the schemas a service declares for one field; min is below max
Fields ==
    {IntegerField("x", r, d, mn, mx) :
        r \in BOOLEAN, d \in {None, PyInt(1)},
        mn \in {None, PyInt(1)}, mx \in {None, PyInt(MaxNum - 1)}}
    \cup
    {DecimalField("x", r, d, mn[1], mn[2], mx[1], mx[2]) :
        r \in BOOLEAN, d \in {None, PyFloat(1)},
        mn \in {<<None, FALSE>>, <<PyFloat(1), FALSE>>, <<PyFloat(1), TRUE>>},
        mx \in {<<None, FALSE>>, <<PyFloat(MaxNum - 1), FALSE>>,
                <<PyFloat(MaxNum - 1), TRUE>>}}
    \cup
    {TextField("x", r, d, mn, mx) :
        r \in BOOLEAN, d \in {None, PyStr("a")},
        mn \in {None, PyInt(1)}, mx \in {None, PyInt(1)}}
    \cup
    {BooleanField("x", r, d) : r \in BOOLEAN, d \in {None, PyBool(TRUE), PyBool(FALSE)}}
    \cup
    {ChoiceField("x", r, d, <<PyStr("a"), PyStr("B")>>) :
        r \in BOOLEAN, d \in {None, PyStr("a")}}
    \cup
    {FileField("x", r, None) : r \in BOOLEAN}

\* ------------------------------------------------------------------------
\* FormField.validate: the outcome of one call
\* ------------------------------------------------------------------------
\* return value
Return(value) == [ok |-> TRUE, code |-> "", value |-> value]

\* raise ValidationError(self, code, message)
ValidationError(code) == [ok |-> FALSE, code |-> code, value |-> None]

\* value = self.default if value is None else value
SubstituteDefault(f, value) == IF value = None THEN f.default ELSE value

\* ------------------------------------------------------------------------
\* Validators of slivka_client/__init__.py (slivka_client.py has the same text)
\* ------------------------------------------------------------------------
IntegerField_validate(f, value) ==
    LET v == SubstituteDefault(f, value) IN
    IF v = None
    THEN IF f.required THEN ValidationError("required") ELSE Return(None)
    ELSE IF v.kind \notin {"int", "bool"} THEN ValidationError("value")
    ELSE IF f.max # None /\ v.n > f.max.n THEN ValidationError("max")
    ELSE IF f.min # None /\ v.n < f.min.n THEN ValidationError("min")
    ELSE Return(v)

\* an exclusive bound is taken for an inclusive one
DecimalField_validate_inclusive(f, value) ==
    LET v == SubstituteDefault(f, value) IN
    IF v = None
    THEN IF f.required THEN ValidationError("required") ELSE Return(None)
    ELSE IF v.kind # "float" THEN ValidationError("value")
    ELSE IF f.max # None /\ v.n > f.max.n THEN ValidationError("max")
    ELSE IF f.min # None /\ v.n < f.min.n THEN ValidationError("min")
    ELSE Return(v)

DecimalField_validate(f, value) ==
    LET v == SubstituteDefault(f, value) IN
    IF v = None
    THEN IF f.required THEN ValidationError("required") ELSE Return(None)
    ELSE IF v.kind # "float" THEN ValidationError("value")
    ELSE IF f.max # None /\ ~f.max_exclusive /\ v.n > f.max.n THEN ValidationError("max")
    ELSE IF f.max # None /\ f.max_exclusive /\ v.n >= f.max.n THEN ValidationError("max")
    ELSE IF f.min # None /\ ~f.min_exclusive /\ v.n < f.min.n THEN ValidationError("min")
    ELSE IF f.min # None /\ f.min_exclusive /\ v.n <= f.min.n THEN ValidationError("min")
    ELSE Return(v)

TextField_validate(f, value) ==
    LET v == SubstituteDefault(f, value) IN
    IF v = None
    THEN IF f.required THEN ValidationError("required") ELSE Return(None)
    ELSE IF v.kind # "str" THEN ValidationError("value")
    ELSE IF f.max_length # None /\ Len(v.s) > f.max_length.n THEN ValidationError("max_length")
    ELSE IF f.min_length # None /\ Len(v.s) < f.min_length.n THEN ValidationError("min_length")
    ELSE Return(v)

\* only None is replaced by the default; False then counts as no value
BooleanField_validate(f, value) ==
    LET v == SubstituteDefault(f, value) IN
    IF v = None \/ v = PyBool(FALSE)
    THEN IF f.required THEN ValidationError("required") ELSE Return(None)
    ELSE IF v.kind # "bool" THEN ValidationError("value")
    ELSE Return(v)

\* the method ends without a return statement: a member of choices yields None
ChoiceField_validate(f, value) ==
    LET v == SubstituteDefault(f, value) IN
    IF v = None
    THEN IF f.required THEN ValidationError("required") ELSE Return(None)
    ELSE IF ~PyIn(v, f.choices) THEN ValidationError("choice")
    ELSE Return(None)

\* return value.uuid
FileField_validate(f, value) ==
    LET v == SubstituteDefault(f, value) IN
    IF v = None
    THEN IF f.required THEN ValidationError("required") ELSE Return(None)
    ELSE IF v.kind # "file" THEN ValidationError("value")
    ELSE Return(PyStr(v.s))

\* field.validate(value), dispatched on the class of the field
validate(f, value) ==
    CASE f.type = "integer" -> IntegerField_validate(f, value)
      [] f.type = "decimal" -> DecimalField_validate(f, value)
      [] f.type = "text" -> TextField_validate(f, value)
      [] f.type = "boolean" -> BooleanField_validate(f, value)
      [] f.type = "choice" -> ChoiceField_validate(f, value)
      [] f.type = "file" -> FileField_validate(f, value)

\* ------------------------------------------------------------------------
\* Validators of form_fields.py: None on a field that is not required is
\* not returned early, it goes on to the type check
\* ------------------------------------------------------------------------
ff_IntegerField_validate(f, value) ==
    LET v == SubstituteDefault(f, value) IN
    IF v = None /\ f.required THEN ValidationError("required")
    ELSE IF v.kind \notin {"int", "bool"} THEN ValidationError("value")
    ELSE IF f.max # None /\ v.n > f.max.n THEN ValidationError("max")
    ELSE IF f.min # None /\ v.n < f.min.n THEN ValidationError("min")
    ELSE Return(v)

ff_DecimalField_validate(f, value) ==
    LET v == SubstituteDefault(f, value) IN
    IF v = None /\ f.required THEN ValidationError("required")
    ELSE IF v.kind # "float" THEN ValidationError("value")
    ELSE IF f.max # None /\ ~f.max_exclusive /\ v.n > f.max.n THEN ValidationError("max")
    ELSE IF f.max # None /\ f.max_exclusive /\ v.n >= f.max.n THEN ValidationError("max")
    ELSE IF f.min # None /\ ~f.min_exclusive /\ v.n < f.min.n THEN ValidationError("min")
    ELSE IF f.min # None /\ f.min_exclusive /\ v.n <= f.min.n THEN ValidationError("min")
    ELSE Return(v)

ff_TextField_validate(f, value) ==
    LET v == SubstituteDefault(f, value) IN
    IF v = None /\ f.required THEN ValidationError("required")
    ELSE IF v.kind # "str" THEN ValidationError("value")
    ELSE IF f.max_length # None /\ Len(v.s) > f.max_length.n THEN ValidationError("max_length")
    ELSE IF f.min_length # None /\ Len(v.s) < f.min_length.n THEN ValidationError("min_length")
    ELSE Return(v)

ff_BooleanField_validate(f, value) ==
    LET v == SubstituteDefault(f, value) IN
    IF (v = None \/ v = PyBool(FALSE)) /\ f.required THEN ValidationError("required")
    ELSE IF v.kind # "bool" THEN ValidationError("value")
    ELSE Return(v)

ff_ChoiceField_validate(f, value) ==
    LET v == SubstituteDefault(f, value) IN
    IF v = None /\ f.required THEN ValidationError("required")
    ELSE IF ~PyIn(v, f.choices) THEN ValidationError("choice")
    ELSE Return(None)

\* return value.id
ff_FileField_validate(f, value) ==
    LET v == SubstituteDefault(f, value) IN
    IF v = None /\ f.required THEN ValidationError("required")
    ELSE IF v.kind # "file" THEN ValidationError("value")
    ELSE Return(PyStr(v.s))

ff_validate(f, value) ==
    CASE f.type = "integer" -> ff_IntegerField_validate(f, value)
      [] f.type = "decimal" -> ff_DecimalField_validate(f, value)
      [] f.type = "text" -> ff_TextField_validate(f, value)
      [] f.type = "boolean" -> ff_BooleanField_validate(f, value)
      [] f.type = "choice" -> ff_ChoiceField_validate(f, value)
      [] f.type = "file" -> ff_FileField_validate(f, value)

\* ------------------------------------------------------------------------
\* One field, one candidate: the calls of validate
\* ------------------------------------------------------------------------
NoResult == [impl |-> "none", out |-> Return(None)]

\* no field is under test
FieldIdle ==
    /\ fld = BooleanField("x", FALSE, None)
    /\ cand = None
    /\ result = NoResult

FieldInit ==
    /\ fld \in Fields
    /\ cand \in Candidates
    /\ result = NoResult

\* fld.validate(cand) with the classes of slivka_client
FieldValidate ==
    /\ result' = [impl |-> "slivka_client", out |-> validate(fld, cand)]
    /\ UNCHANGED <<fld, cand>>
    /\ UNCHANGED <<wvars, jvars, nvars, formvars, clivars>>

\* fld.validate(cand) with the classes of form_fields.py
ff_FieldValidate ==
    /\ result' = [impl |-> "form_fields", out |-> ff_validate(fld, cand)]
    /\ UNCHANGED <<fld, cand>>
    /\ UNCHANGED <<wvars, jvars, nvars, formvars, clivars>>

\* ------------------------------------------------------------------------
\* Form: the value map of a template and of its copies
\* ------------------------------------------------------------------------
\* generation names the Form class in use: "form" for slivka_client/form.py,
\* "init" for slivka_client/__init__.py and "legacy" for slivka_client.py

\* the form built from the service's schema
Template == "template"

\* the forms copy() may return
Copies == {"copy1", "copy2"}

Instances == {Template} \cup Copies

\* a name no schema declares
Undeclared == "z"

\* the list objects the caller holds and may pass to a form
CallerLists == {"L1"}

\* a file-like object (io.IOBase)
IOBase == [kind |-> "io", n |-> 0, s |-> ""]

\* most values held by all forms and caller lists together
MaxStored == 2

\* what a dict holds under a key: a list object of its own, a list object
\* the caller also holds, or any other object
ListCell(items) == [kind |-> "list", items |-> items, id |-> "", v |-> None]

RefCell(id) == [kind |-> "ref", items |-> <<>>, id |-> id, v |-> None]

ScalarCell(v) == [kind |-> "scalar", items |-> <<>>, id |-> "", v |-> v]

\* {} and defaultdict(list)
EmptyDict == [k \in {} |-> None]

\* d[k] = c
DictSet(d, k, c) == [n \in DOMAIN d \cup {k} |-> IF n = k THEN c ELSE d[n]]

\* del d[k]
DictDel(d, k) == [n \in DOMAIN d \ {k} |-> d[n]]

\* defaultdict(list).__getitem__: a missing key is given a new empty list
DefaultGet(d, k) == IF k \in DOMAIN d THEN d[k] ELSE ListCell(<<>>)

\* self._fields.keys()
declared == {fields[i].name : i \in DOMAIN fields}

FieldOf(name) == fields[CHOOSE i \in DOMAIN fields : fields[i].name = name]

\* the elements of a list argument
ItemsOf(c, hp) ==
    CASE c.kind = "list" -> c.items
      [] c.kind = "ref" -> hp[c.id]
      [] c.kind = "scalar" -> <<c.v>>

\* the values a form holds, with the caller's lists looked up
ViewOf(vals, hp, f) == [k \in DOMAIN vals[f] |-> ItemsOf(vals[f][k], hp)]

\* the sequence of values held for one field, empty when there is none
SeqOf(vals, hp, f, k) == IF k \in DOMAIN vals[f] THEN ItemsOf(vals[f][k], hp) ELSE <<>>

RECURSIVE SumOver(_, _)
SumOver(F, S) ==
    IF S = {} THEN 0
    ELSE LET e == CHOOSE e \in S : TRUE IN F[e] + SumOver(F, S \ {e})

\* a list the caller holds is counted once, with the caller
CellSize(c) ==
    CASE c.kind = "list" -> Len(c.items)
      [] c.kind = "ref" -> 0
      [] c.kind = "scalar" -> 1

Stored(vals, hp) ==
    SumOver([f \in Instances |->
                SumOver([k \in DOMAIN vals[f] |-> CellSize(vals[f][k])], DOMAIN vals[f])],
            Instances)
        + SumOver([i \in DOMAIN hp |-> Len(hp[i])], DOMAIN hp)

\* the values a caller supplies
FormCandidates ==
    IF generation = "form" THEN {PyInt(1), IOBase}
    ELSE {PyInt(0), PyInt(1), PyStr("a")}

\* what the service answers to a submission: the status and, in the body of
\* a rejection, the errors of the fields
Response(status_code, errors) == [status_code |-> status_code, errors |-> errors]

\* success, rejection of one field or of two, failure of the service
Responses ==
    {Response(c, <<>>) : c \in {"200", "202", "500"}}
        \cup {Response("420", e) :
                e \in {<<[field |-> "x", message |-> "bad", errorCode |-> "value"]>>,
                       <<[field |-> "x", message |-> "low", errorCode |-> "min"],
                         [field |-> "y", message |-> "none", errorCode |-> "required"]>>}}

\* FieldError(**kw)
FieldError(kw) == [message |-> kw.message, field |-> kw.field, errorCode |-> kw.errorCode]

\* the outcome of the last call on a form, with the number of requests it
\* sent, the keys it sent as file parts and the answer to its request
Result(op, f, args, kind) ==
    [op |-> op, form |-> f, args |-> args, kind |-> kind,
     cleaned |-> EmptyDict, errors |-> <<>>, sent |-> 0, files |-> {},
     response |-> Response("", <<>>)]

NoCall == Result("none", Template, <<>>, "none")

Arg(key, c) == [key |-> key, value |-> c]

\* no form is under test
FormIdle ==
    /\ generation = "form"
    /\ fields = <<>>
    /\ forms = {Template}
    /\ values = [f \in Instances |-> EmptyDict]
    /\ heap = [i \in CallerLists |-> <<>>]
    /\ ret = NoCall

\* a template built by _build_form / Form.from_json, the caller holding a list
FormInit(gens, schemas, list) ==
    /\ generation \in gens
    /\ fields \in schemas
    /\ forms = {Template}
    /\ values = [f \in Instances |-> EmptyDict]
    /\ heap = [i \in CallerLists |-> list]
    /\ ret = NoCall

formframe == <<generation, fields>>

\* Form.copy: a new Form over the same fields, with a value map of its own
Form_copy(f) ==
    /\ f \in forms
    /\ forms # Instances
    /\ LET c == IF "copy1" \in forms THEN "copy2" ELSE "copy1" IN
        /\ forms' = forms \cup {c}
        /\ values' = [values EXCEPT ![c] = EmptyDict]
        /\ ret' = Result("copy", c, <<>>, "ok")
    /\ UNCHANGED <<formframe, heap>>
    /\ UNCHANGED <<wvars, jvars, nvars, fieldvars, clivars>>

\* ------------------------------------------------------------------------
\* slivka_client/form.py
\* ------------------------------------------------------------------------
\* Form.clear
form_clear(f) ==
    /\ generation = "form"
    /\ f \in forms
    /\ values' = [values EXCEPT ![f] = EmptyDict]
    /\ ret' = Result("clear", f, <<>>, "ok")
    /\ UNCHANGED <<formframe, forms, heap>>
    /\ UNCHANGED <<wvars, jvars, nvars, fieldvars, clivars>>

\* Form.set: the object passed is stored as it is
form_set(f, key, value) ==
    /\ generation = "form"
    /\ f \in forms
    /\ IF key \notin declared
       THEN /\ ret' = Result("set", f, <<Arg(key, value)>>, "KeyError")
            /\ UNCHANGED values
       ELSE /\ values' = [values EXCEPT ![f] = DictSet(@, key, value)]
            /\ Stored(values', heap) <= MaxStored
            /\ ret' = Result("set", f, <<Arg(key, value)>>, "ok")
    /\ UNCHANGED <<formframe, forms, heap>>
    /\ UNCHANGED <<wvars, jvars, nvars, fieldvars, clivars>>

\* the key is not looked up in the fields: the defaultdict makes a list for it
form_append_unchecked(f, key, value) ==
    /\ generation = "form"
    /\ f \in forms
    /\ LET cell == DefaultGet(values[f], key) IN
        CASE cell.kind = "scalar" ->
                /\ ret' = Result("append", f, <<Arg(key, ScalarCell(value))>>, "AttributeError")
                /\ UNCHANGED <<values, heap>>
          [] cell.kind = "ref" ->
                /\ heap' = [heap EXCEPT ![cell.id] = Append(@, value)]
                /\ Stored(values, heap') <= MaxStored
                /\ ret' = Result("append", f, <<Arg(key, ScalarCell(value))>>, "ok")
                /\ UNCHANGED values
          [] cell.kind = "list" ->
                /\ values' = [values EXCEPT ![f] =
                                DictSet(@, key, ListCell(Append(cell.items, value)))]
                /\ Stored(values', heap) <= MaxStored
                /\ ret' = Result("append", f, <<Arg(key, ScalarCell(value))>>, "ok")
                /\ UNCHANGED heap
    /\ UNCHANGED <<formframe, forms>>
    /\ UNCHANGED <<wvars, jvars, nvars, fieldvars, clivars>>

\* Form.append: self._values[key].append(value)
form_append(f, key, value) ==
    /\ generation = "form"
    /\ f \in forms
    /\ IF key \notin declared
       THEN /\ ret' = Result("append", f, <<Arg(key, ScalarCell(value))>>, "KeyError")
            /\ UNCHANGED <<values, heap>>
       ELSE LET cell == DefaultGet(values[f], key) IN
            CASE cell.kind = "scalar" ->
                    /\ ret' = Result("append", f, <<Arg(key, ScalarCell(value))>>,
                                     "AttributeError")
                    /\ UNCHANGED <<values, heap>>
              [] cell.kind = "ref" ->
                    /\ heap' = [heap EXCEPT ![cell.id] = Append(@, value)]
                    /\ Stored(values, heap') <= MaxStored
                    /\ ret' = Result("append", f, <<Arg(key, ScalarCell(value))>>, "ok")
                    /\ UNCHANGED values
              [] cell.kind = "list" ->
                    /\ values' = [values EXCEPT ![f] =
                                    DictSet(@, key, ListCell(Append(cell.items, value)))]
                    /\ Stored(values', heap) <= MaxStored
                    /\ ret' = Result("append", f, <<Arg(key, ScalarCell(value))>>, "ok")
                    /\ UNCHANGED heap
    /\ UNCHANGED <<formframe, forms>>
    /\ UNCHANGED <<wvars, jvars, nvars, fieldvars, clivars>>

\* Form.extend: self._values[key].extend(iterable)
form_extend(f, key, iterable) ==
    /\ generation = "form"
    /\ f \in forms
    /\ IF key \notin declared
       THEN /\ ret' = Result("extend", f, <<Arg(key, iterable)>>, "KeyError")
            /\ UNCHANGED <<values, heap>>
       ELSE LET cell == DefaultGet(values[f], key) IN
            CASE cell.kind = "scalar" ->
                    /\ ret' = Result("extend", f, <<Arg(key, iterable)>>, "AttributeError")
                    /\ UNCHANGED <<values, heap>>
              [] cell.kind = "ref" ->
                    /\ heap' = [heap EXCEPT ![cell.id] = @ \o ItemsOf(iterable, heap)]
                    /\ Stored(values, heap') <= MaxStored
                    /\ ret' = Result("extend", f, <<Arg(key, iterable)>>, "ok")
                    /\ UNCHANGED values
              [] cell.kind = "list" ->
                    /\ values' = [values EXCEPT ![f] =
                                    DictSet(@, key,
                                            ListCell(cell.items \o ItemsOf(iterable, heap)))]
                    /\ Stored(values', heap) <= MaxStored
                    /\ ret' = Result("extend", f, <<Arg(key, iterable)>>, "ok")
                    /\ UNCHANGED heap
    /\ UNCHANGED <<formframe, forms>>
    /\ UNCHANGED <<wvars, jvars, nvars, fieldvars, clivars>>

\* Form.__delitem__: del self._values[key]
form_delitem(f, key) ==
    /\ generation = "form"
    /\ f \in forms
    /\ IF key \notin DOMAIN values[f]
       THEN /\ ret' = Result("delitem", f, <<Arg(key, ScalarCell(None))>>, "KeyError")
            /\ UNCHANGED values
       ELSE /\ values' = [values EXCEPT ![f] = DictDel(@, key)]
            /\ ret' = Result("delitem", f, <<Arg(key, ScalarCell(None))>>, "ok")
    /\ UNCHANGED <<formframe, forms, heap>>
    /\ UNCHANGED <<wvars, jvars, nvars, fieldvars, clivars>>

RECURSIVE DictUpdate(_, _)
\* dict.update with a sequence of items
DictUpdate(d, items) ==
    IF items = <<>> THEN d
    ELSE DictUpdate(DictSet(d, Head(items).key, Head(items).value), Tail(items))

\* Form.submit of form.py: the loop over data.items() pops the file-like
\* values out of the dict it iterates, which raises RuntimeError
form_submit(f, items, response) ==
    /\ generation = "form"
    /\ f \in forms
    /\ LET data == DictUpdate(values[f], items) IN
        IF \E k \in DOMAIN data : data[k] = ScalarCell(IOBase)
        THEN ret' = Result("submit", f, items, "RuntimeError")
        ELSE ret' = [Result("submit", f, items,
                            CASE response.status_code = "420" -> "ValidationError"
                              [] response.status_code = "500" -> "HTTPError"
                              [] OTHER -> "uuid")
                     EXCEPT !.sent = 1,
                            !.files = {k \in DOMAIN data : data[k] = ScalarCell(IOBase)},
                            !.response = response,
                            !.errors = IF response.status_code = "420"
                                       THEN [i \in DOMAIN response.errors |->
                                                FieldError(response.errors[i])]
                                       ELSE <<>>]
    /\ UNCHANGED <<formframe, forms, values, heap>>
    /\ UNCHANGED <<wvars, jvars, nvars, fieldvars, clivars>>

\* ------------------------------------------------------------------------
\* slivka_client/__init__.py
\* ------------------------------------------------------------------------
\* Form.reset: every stored list is emptied, the keys stay
init_reset(f) ==
    /\ generation = "init"
    /\ f \in forms
    /\ values' = [values EXCEPT ![f] = [k \in DOMAIN @ |-> ListCell(<<>>)]]
    /\ ret' = Result("reset", f, <<>>, "ok")
    /\ UNCHANGED <<formframe, forms, heap>>
    /\ UNCHANGED <<wvars, jvars, nvars, fieldvars, clivars>>

RECURSIVE InsertLoop(_, _)
\* the loop of Form.insert: it stops at the first name that is not a field
InsertLoop(d, items) ==
    IF items = <<>> \/ Head(items).key \notin declared THEN d
    ELSE LET it == Head(items)
             new == IF it.value.kind = "list"
                    THEN DefaultGet(d, it.key).items \o it.value.items
                    ELSE Append(DefaultGet(d, it.key).items, it.value.v)
         IN InsertLoop(DictSet(d, it.key, ListCell(new)), Tail(items))

\* Form.insert
init_insert(f, items) ==
    /\ generation = "init"
    /\ f \in forms
    /\ values' = [values EXCEPT ![f] = InsertLoop(@, items)]
    /\ Stored(values', heap) <= MaxStored
    /\ ret' = Result("insert", f, items,
                     IF \E i \in DOMAIN items : items[i].key \notin declared
                     THEN "KeyError" ELSE "ok")
    /\ UNCHANGED <<formframe, forms, heap>>
    /\ UNCHANGED <<wvars, jvars, nvars, fieldvars, clivars>>

\* the body of the try block for one field: the code of the ValidationError
\* it raises, "" when it raises none
init_FieldError(f, d) ==
    LET items == DefaultGet(d, f.name).items
        bad == {i \in DOMAIN items : ~validate(f, items[i]).ok}
    IN  IF items = <<>> THEN validate(f, None).code
        ELSE IF bad = {} THEN ""
        ELSE validate(f, items[CHOOSE i \in bad : \A j \in bad : i <= j]).code

\* validation stops at the first field that fails
init_Errors_first_only(d) ==
    LET Fails(f) == init_FieldError(f, d) # ""
        failing == SelectSeq(fields, Fails)
    IN  [i \in 1..(IF failing = <<>> THEN 0 ELSE 1) |->
            [field |-> failing[i].name, code |-> init_FieldError(failing[i], d)]]

\* the errors list of Form.validate, in the order of the fields
init_Errors(d) ==
    LET Fails(f) == init_FieldError(f, d) # ""
        failing == SelectSeq(fields, Fails)
    IN  [i \in DOMAIN failing |->
            [field |-> failing[i].name, code |-> init_FieldError(failing[i], d)]]

\* cleaned_values of Form.validate
init_Cleaned(d) ==
    [name \in declared |->
        LET items == DefaultGet(d, name).items IN
        ListCell([i \in DOMAIN items |-> validate(FieldOf(name), items[i]).value])]

\* self._values[name] gives every field a key
init_Touch(d) == [name \in DOMAIN d \cup declared |-> DefaultGet(d, name)]

\* Form.validate
init_validate(f) ==
    /\ generation = "init"
    /\ f \in forms
    /\ values' = [values EXCEPT ![f] = init_Touch(@)]
    /\ ret' = IF init_Errors(values[f]) # <<>>
              THEN [Result("validate", f, <<>>, "FormValidationError")
                        EXCEPT !.errors = init_Errors(values[f])]
              ELSE [Result("validate", f, <<>>, "returned")
                        EXCEPT !.cleaned = init_Cleaned(values[f])]
    /\ UNCHANGED <<formframe, forms, heap>>
    /\ UNCHANGED <<wvars, jvars, nvars, fieldvars, clivars>>

\* Form.submit
init_submit(f, response) ==
    /\ generation = "init"
    /\ f \in forms
    /\ values' = [values EXCEPT ![f] = init_Touch(@)]
    /\ ret' = IF init_Errors(values[f]) # <<>>
              THEN [Result("submit", f, <<>>, "FormValidationError")
                        EXCEPT !.errors = init_Errors(values[f])]
              ELSE [Result("submit", f, <<>>,
                           IF response.status_code = "202" THEN "uuid" ELSE "HTTPException")
                        EXCEPT !.cleaned = init_Cleaned(values[f]), !.sent = 1,
                               !.response = response]
    /\ UNCHANGED <<formframe, forms, heap>>
    /\ UNCHANGED <<wvars, jvars, nvars, fieldvars, clivars>>

\* ------------------------------------------------------------------------
\* slivka_client.py
\* ------------------------------------------------------------------------
RECURSIVE LegacyInsertLoop(_, _)
\* the loop of Form.insert: self._values[name] = value
LegacyInsertLoop(d, items) ==
    IF items = <<>> \/ Head(items).key \notin declared THEN d
    ELSE LegacyInsertLoop(DictSet(d, Head(items).key, Head(items).value), Tail(items))

\* Form.insert
legacy_insert(f, items) ==
    /\ generation = "legacy"
    /\ f \in forms
    /\ values' = [values EXCEPT ![f] = LegacyInsertLoop(@, items)]
    /\ Stored(values', heap) <= MaxStored
    /\ ret' = Result("insert", f, items,
                     IF \E i \in DOMAIN items : items[i].key \notin declared
                     THEN "KeyError" ELSE "ok")
    /\ UNCHANGED <<formframe, forms, heap>>
    /\ UNCHANGED <<wvars, jvars, nvars, fieldvars, clivars>>

\* self._values.get(name)
LegacyGet(d, name) == IF name \in DOMAIN d THEN d[name].v ELSE None

\* the errors list of Form.validate
legacy_Errors(d) ==
    LET Fails(f) == ~validate(f, LegacyGet(d, f.name)).ok
        failing == SelectSeq(fields, Fails)
    IN  [i \in DOMAIN failing |->
            [field |-> failing[i].name,
             code |-> validate(failing[i], LegacyGet(d, failing[i].name)).code]]

\* cleaned_values of Form.validate
legacy_Cleaned(d) ==
    [name \in declared |-> ScalarCell(validate(FieldOf(name), LegacyGet(d, name)).value)]

\* Form.validate
legacy_validate(f) ==
    /\ generation = "legacy"
    /\ f \in forms
    /\ ret' = IF legacy_Errors(values[f]) # <<>>
              THEN [Result("validate", f, <<>>, "FormValidationError")
                        EXCEPT !.errors = legacy_Errors(values[f])]
              ELSE [Result("validate", f, <<>>, "returned")
                        EXCEPT !.cleaned = legacy_Cleaned(values[f])]
    /\ UNCHANGED <<formframe, forms, values, heap>>
    /\ UNCHANGED <<wvars, jvars, nvars, fieldvars, clivars>>

\* Form.submit
legacy_submit(f, response) ==
    /\ generation = "legacy"
    /\ f \in forms
    /\ ret' = IF legacy_Errors(values[f]) # <<>>
              THEN [Result("submit", f, <<>>, "FormValidationError")
                        EXCEPT !.errors = legacy_Errors(values[f])]
              ELSE [Result("submit", f, <<>>,
                           IF response.status_code = "202" THEN "Task" ELSE "HTTPException")
                        EXCEPT !.cleaned = legacy_Cleaned(values[f]), !.sent = 1,
                               !.response = response]
    /\ UNCHANGED <<formframe, forms, values, heap>>
    /\ UNCHANGED <<wvars, jvars, nvars, fieldvars, clivars>>

\* ------------------------------------------------------------------------
\* The calls a caller makes on the forms
\* ------------------------------------------------------------------------
\* what a caller passes as a list: a list written in the call, or a list it holds
ListArgs == {ListCell(<<v>>) : v \in FormCandidates} \cup {RefCell(i) : i \in CallerLists}

\* what a caller passes to set
SetArgs == {ScalarCell(v) : v \in FormCandidates} \cup {ListCell(<<PyInt(1)>>)}
               \cup {RefCell(i) : i \in CallerLists}

\* a call names a declared field with any of the values, or the undeclared name
Named(cells) == (declared \X cells) \cup {<<Undeclared, ScalarCell(PyInt(1))>>}

\* the dicts passed to insert: one value, one collection, or two values
ItemArgs ==
    {<<Arg(a[1], a[2])>> :
        a \in Named({ScalarCell(v) : v \in FormCandidates}
                       \cup {ListCell(<<v, PyInt(0)>>) : v \in FormCandidates})}
        \cup {<<Arg(k[1], ScalarCell(v)), Arg(k[2], ScalarCell(v))>> :
                k \in {p \in (declared \cup {Undeclared}) \X (declared \cup {Undeclared}) :
                          p[1] # p[2]},
                v \in FormCandidates}

ScalarItemArgs == {it \in ItemArgs : \A i \in DOMAIN it : it[i].value.kind = "scalar"}

\* the items passed to submit
SubmitArgs == {<<>>, <<Arg(Undeclared, ScalarCell(PyInt(1)))>>}

\* ------------------------------------------------------------------------
\* The files command (slivka_client/__main__.py)
\* ------------------------------------------------------------------------
\* most files a job has
MaxFiles == 2

\* --directory; a path is the sequence of its components
Directory == <<"out">>

\* file.path of a file of the job, with or without a directory part
FilePaths == {<<"a">>, <<"s", "b">>}

\* os.path.dirname
dirname(path) == SubSeq(path, 1, Len(path) - 1)

\* os.makedirs: the directory and the directories above it
makedirs(d, path) == d \cup {SubSeq(path, 1, n) : n \in 1..Len(path)}

\* the command is not running
CliIdle ==
    /\ download = FALSE
    /\ overwrite = "prompt"
    /\ job_files = <<>>
    /\ disk = {}
    /\ cli_pc = 1
    /\ existed = <<>>
    /\ answer = <<>>
    /\ outcome = <<>>

\* the options of the command, the files of the job, and a download
\* directory that is missing, empty, or holds some of the files
CliInit ==
    /\ download \in BOOLEAN
    /\ overwrite \in {"yes", "no", "prompt"}
    /\ job_files \in UNION {[1..n -> FilePaths] : n \in 0..MaxFiles}
    /\ disk \in {{}} \cup {makedirs({}, Directory) \cup UNION {makedirs({}, Directory \o p) : p \in held} :
                            held \in SUBSET FilePaths}
    /\ cli_pc = 1
    /\ existed = [i \in DOMAIN job_files |-> "none"]
    /\ answer = [i \in DOMAIN job_files |-> "none"]
    /\ outcome = [i \in DOMAIN job_files |-> "none"]

\* one iteration of `for file in job.files`: confirmed is what the user
\* answers if asked, dumped whether file.dump gets the content
files(confirmed, dumped) ==
    /\ cli_pc \in DOMAIN job_files
    /\ IF ~download
       THEN /\ cli_pc' = cli_pc + 1
            /\ UNCHANGED <<disk, existed, answer, outcome>>
       ELSE LET fp == Directory \o job_files[cli_pc]
                d1 == IF Directory \notin disk THEN makedirs(disk, Directory) ELSE disk
                d2 == IF dirname(job_files[cli_pc]) # <<>>
                      THEN makedirs(d1, dirname(fp)) ELSE d1
                asked == fp \in d2 /\ overwrite = "prompt"
            IN  /\ existed' = [existed EXCEPT ![cli_pc] = BoolStr(fp \in d2)]
                /\ answer' = [answer EXCEPT ![cli_pc] = IF asked THEN BoolStr(confirmed) ELSE "none"]
                /\ IF asked /\ ~confirmed
                   THEN /\ disk' = d2
                        /\ outcome' = [outcome EXCEPT ![cli_pc] = "skipped"]
                        /\ cli_pc' = cli_pc + 1
                   ELSE IF dumped
                   THEN /\ disk' = d2 \cup {fp}
                        /\ outcome' = [outcome EXCEPT ![cli_pc] = "written"]
                        /\ cli_pc' = cli_pc + 1
                   ELSE /\ disk' = d2
                        /\ outcome' = [outcome EXCEPT ![cli_pc] = "failed"]
                        /\ cli_pc' = 0
    /\ UNCHANGED <<download, overwrite, job_files>>
    /\ UNCHANGED <<wvars, jvars, nvars, fieldvars, formvars>>

\* ------------------------------------------------------------------------
\* Specifications
\* ------------------------------------------------------------------------
Init == WatcherInit /\ JobInit("QUEUED") /\ NbInit /\ FieldIdle /\ FormIdle /\ CliIdle

Next ==
    \/ Start
    \/ AddListener
    \/ interrupt
    \/ RunClear
    \/ GetStatusBegin
    \/ GetStatusResponse
    \/ RunCheckReady
    \/ RunWait
    \/ RunTest
    \/ RunExit
    \/ RunNotify
    \/ WaitCall
    \/ WaitReturn
    \/ CallerGetStatusBegin
    \/ CallerGetStatusResponse

Spec == Init /\ [][Next]_vars

\* the watcher thread is scheduled fairly; callers may stop calling
FairSpec == Spec /\ WF_vars(RunStep)

\* a Job handle read by its owner while time passes and the service works
JobSpecInit ==
    WatcherInit /\ NbInit /\ FieldIdle /\ FormIdle /\ CliIdle
        /\ \E s \in JobServerStates : JobInit(s)

JobNext ==
    \/ Tick
    \/ ServiceStep
    \/ ReadStatus
    \/ ReadCompletionTime

JobSpec == JobSpecInit /\ [][JobNext]_vars

\* the monitor tasks of a notebook form
NbNext ==
    \/ NbSubmit
    \/ MonitorFirst
    \/ MonitorTest
    \/ MonitorSleep
    \/ MonitorFetch
    \/ MonitorResults

NbSpec == Init /\ [][NbNext]_vars

\* one field validates one candidate
FieldSpecInit == WatcherInit /\ JobInit("QUEUED") /\ NbInit /\ FieldInit /\ FormIdle /\ CliIdle

FieldNext ==
    \/ FieldValidate
    \/ ff_FieldValidate

FieldSpec == FieldSpecInit /\ [][FieldNext]_vars

\* a form of one field
FormSchemas == {<<IntegerField("x", TRUE, None, PyInt(1), PyInt(2))>>}

\* a template and its copies filled by a caller
FormSpecInit ==
    WatcherInit /\ JobInit("QUEUED") /\ NbInit /\ FieldIdle
        /\ FormInit({"form", "init"}, FormSchemas, <<PyInt(0)>>) /\ CliIdle

\* the calls a caller makes; Form.__setitem__ is a call of set
FormNext ==
    \/ \E f \in forms : Form_copy(f)
    \/ \E f \in forms : form_clear(f)
    \/ \E f \in forms : \E a \in Named(SetArgs) : form_set(f, a[1], a[2])
    \/ \E f \in forms :
            \E a \in Named({ScalarCell(v) : v \in FormCandidates}) :
                form_append(f, a[1], a[2].v)
    \/ \E f \in forms : \E a \in Named(ListArgs) : form_extend(f, a[1], a[2])
    \/ \E f \in forms : \E k \in declared \cup {Undeclared} : form_delitem(f, k)
    \/ \E f \in forms : \E items \in SubmitArgs :
            \E response \in Responses : form_submit(f, items, response)
    \/ \E f \in forms : init_reset(f)
    \/ \E f \in forms : \E items \in ItemArgs : init_insert(f, items)
    \/ \E f \in forms : init_validate(f)
    \/ \E f \in forms : \E response \in Responses : init_submit(f, response)

FormSpec == FormSpecInit /\ [][FormNext]_vars

\* forms of two fields: an integer between 1 and 2, and a choice or a text
ValidateSchemas ==
    {<<fx, fy>> :
        fx \in {IntegerField("x", r[1], r[2], PyInt(1), PyInt(2)) :
                    r \in {<<TRUE, None>>, <<TRUE, PyInt(1)>>, <<FALSE, None>>}},
        fy \in {ChoiceField("y", FALSE, PyStr("a"), <<PyStr("a"), PyStr("B")>>),
                TextField("y", TRUE, None, None, None)}}

\* one form filled and validated
ValidateSpecInit ==
    WatcherInit /\ JobInit("QUEUED") /\ NbInit /\ FieldIdle
        /\ FormInit({"init", "legacy"}, ValidateSchemas, <<>>) /\ CliIdle

ValidateNext ==
    \/ \E f \in forms : init_reset(f)
    \/ \E f \in forms : \E items \in ItemArgs : init_insert(f, items)
    \/ \E f \in forms : init_validate(f)
    \/ \E f \in forms : \E response \in Responses : init_submit(f, response)
    \/ \E f \in forms : \E items \in ScalarItemArgs : legacy_insert(f, items)
    \/ \E f \in forms : legacy_validate(f)
    \/ \E f \in forms : \E response \in Responses : legacy_submit(f, response)

ValidateSpec == ValidateSpecInit /\ [][ValidateNext]_vars

\* one run of the files command
CliSpecInit == WatcherInit /\ JobInit("QUEUED") /\ NbInit /\ FieldIdle /\ FormIdle /\ CliInit

CliNext == \E confirmed \in BOOLEAN : \E dumped \in BOOLEAN : files(confirmed, dumped)

CliSpec == CliSpecInit /\ [][CliNext]_vars

\* ------------------------------------------------------------------------
\* Claims about the TaskWatcher
\* ------------------------------------------------------------------------

\* C1: when the thread has ended after a ready status was fetched, with no
\* interrupt and no transport error, every listener registered before the
\* start has been invoked exactly once; and no listener is ever invoked
\* unless a ready status has been fetched.
C1_ListenersOnceAfterReady ==
    /\ (Terminated /\ status = "ready" /\ ~h_intr /\ ~h_error)
          => \A l \in h_pre : calls[l] = 1
    /\ \A l \in Listeners : calls[l] > 0 => status = "ready"

\* C2: an interrupt() called (after start) before the watcher has observed
\* a ready status means that no completion listener is ever invoked.
C2_InterruptSuppressesListeners ==
    h_intr_early => \A l \in Listeners : calls[l] = 0

\* C3: after an interrupt() issued once the watcher was started, run()
\* begins at most the one status fetch that precedes the next wait boundary
\* (the claim allows none beyond the fetch in flight).
C3_InterruptStopsPolling == h_fetch_after <= 1

\* C4: when a listener raised during the notification, every listener that
\* was registered when the notification began has still been called once
\* by the time the thread ends.
C4_RaisingListenerDoesNotBlockOthers ==
    (Terminated /\ h_raised) => \A l \in h_at_finish : calls[l] = 1

\* C5: a listener registered after the watcher has finished (the ready
\* status was observed and the notification loop has run) is eventually
\* invoked.
C5_LateListenerInvoked ==
    \A l \in Listeners : (l \in h_late) ~> (calls[l] > 0)

\* C6: once a status fetch of the poll loop has failed, the thread makes no
\* further step (no fetch, no listener call), no listener has been called,
\* and the event is unset and no wait has returned true unless interrupt()
\* was called.
C6_FetchErrorIsFatal ==
    /\ [](h_error => /\ \A l \in Listeners : calls[l] = 0
                     /\ (~h_intr => ~interrupt_event /\ wait_result # "true"))
    /\ [][h_error => (wpc' = wpc /\ calls' = calls)]_vars

C6_Witness ==
    h_error /\ ~h_intr /\ wait_from = "failed" /\ wait_result = "false"

\* C7: a wait() returns true exactly when the event is set when it returns;
\* a wait() called once the loop was left (Finished or Interrupted) returns
\* true without blocking; and a caller blocked in wait() never disables a
\* step of the running watcher thread.
C7_WaitReportsSignal ==
    /\ [](wait_from = "stopped" => wait_pc = "idle" /\ wait_result = "true")
    /\ [](Stopped => interrupt_event)
    /\ [][(waitvars' # waitvars /\ wait_result' # "none")
              => wait_result' = BoolStr(interrupt_event)]_vars
    /\ [](wait_pc = "blocked" /\ wpc \notin {"idle", "done", "failed", "raised"}
              => ENABLED RunStep)

C7_Witness ==
    wait_from = "stopped" /\ wait_result = "true" /\ status = "notready" /\ wpc = "done"

\* ------------------------------------------------------------------------
\* What run() does guarantee (not claims of the specification)
\* ------------------------------------------------------------------------

\* when run() returns normally after a ready status, with no interrupt,
\* every listener registered before the start was called exactly once
RunReturnedNotifiesAll ==
    (wpc = "done" /\ status = "ready" /\ ~h_intr /\ ~h_error)
        => \A l \in h_pre : calls[l] = 1

\* listeners are called only when the last status fetched was ready, and
\* never twice
NotifiedOnlyWhenReady ==
    \A l \in Listeners : calls[l] <= 1 /\ (calls[l] = 1 => status = "ready")

\* a listener registered after the notification loop has run is stored
\* and never called
LateListenerNeverInvoked ==
    \A l \in h_late : l \in listeners /\ calls[l] = 0

\* ------------------------------------------------------------------------
\* Claims about Job and JobState
\* ------------------------------------------------------------------------

\* C8: once a read of Job.status has returned a finished status, no later
\* read of status or completion_time issues a request.
C8_NoRequestAfterFinished == ~h_req_after_finished

\* C9: every request of a read is issued more than POLL_DELAY after the last
\* successful reload (or the construction), and the poll timestamp is the
\* time of that reload: reads within POLL_DELAY of it issue no request.
C9_RefetchOnlyAfterDelay ==
    /\ h_req_at # NoTime => h_req_at > h_req_prev_ok + POLL_DELAY
    /\ poll_timestamp = h_last_ok
    /\ h_hit_at # NoTime => h_hit_at <= h_last_ok + POLL_DELAY

C9_Witness ==
    /\ h_req_at # NoTime
    /\ h_last_ok >= h_req_at
    /\ h_req_prev_ok > 0
    /\ h_hit_at > h_last_ok

\* C10: is_finished is false for exactly PENDING, ACCEPTED, QUEUED and
\* RUNNING and true for the seven other states, and the monitor task polls
\* again only on those four: it has left the loop on every other state,
\* UNKNOWN included.
C10_FinishedClassification ==
    /\ Cardinality(JobStates) = 11
    /\ \A s \in JobStates :
          is_finished(s) <=> s \in {"REJECTED", "COMPLETED", "INTERRUPTED", "DELETED",
                                    "FAILED", "ERROR", "UNKNOWN"}
    /\ \A j \in JobIds :
          /\ mon_pc[j] \in {"sleep", "fetch"}
                => mon_state[j] \in {"PENDING", "ACCEPTED", "QUEUED", "RUNNING"}
          /\ mon_pc[j] \in {"results", "done"}
                => mon_state[j] \in {"REJECTED", "COMPLETED", "INTERRUPTED", "DELETED",
                                     "FAILED", "ERROR", "UNKNOWN"}

C10_Witness ==
    \E j \in JobIds : mon_pc[j] = "done" /\ mon_state[j] = "UNKNOWN"

\* ------------------------------------------------------------------------
\* Claims about the forms
\* ------------------------------------------------------------------------

\* C11: copy() returns a form that holds no values, and a call on one form
\* changes the values held by no other form, whichever objects were passed.
C11_CopiesAreIndependent ==
    [][/\ ret'.op = "copy" => values'[ret'.form] = EmptyDict
       /\ \A g \in forms :
            g # ret'.form => ViewOf(values', heap', g) = ViewOf(values, heap, g)]_vars

\* C12: every key of every form's value map is a declared field, and a set,
\* append, extend, item deletion or insert that names an undeclared field
\* raises KeyError.
C12_KeysAreDeclared ==
    /\ \A f \in Instances : DOMAIN values[f] \subseteq declared
    /\ (/\ ret.op \in {"set", "append", "extend", "delitem", "insert"}
        /\ \E i \in DOMAIN ret.args : ret.args[i].key \notin declared)
            => ret.kind = "KeyError"

\* an append naming the undeclared field was refused on a form that holds values
C12_Witness ==
    /\ ret.op = "append"
    /\ ret.kind = "KeyError"
    /\ ret.args[1].key = Undeclared
    /\ values[ret.form] # EmptyDict

\* C13: a set, append or extend on a declared field succeeds, and afterwards
\* the field holds the values passed to set, or the values it held followed
\* by the appended value or by the values of the iterable.
C13_SetAppendExtend ==
    [][(/\ generation = "form"
        /\ ret'.op \in {"set", "append", "extend"}
        /\ ret'.args[1].key \in declared)
            => LET f == ret'.form
                   k == ret'.args[1].key
                   a == ret'.args[1].value
                   before == SeqOf(values, heap, f, k)
                   after == SeqOf(values', heap', f, k)
               IN  /\ ret'.kind = "ok"
                   /\ ret'.op = "set" => after = ItemsOf(a, heap)
                   /\ ret'.op = "append" => after = Append(before, a.v)
                   /\ ret'.op = "extend" => after = before \o ItemsOf(a, heap)]_vars

\* C14: validate raises FormValidationError with exactly one error for each
\* field that fails and none for the others, and returns the cleaned values,
\* one entry for each declared field, exactly when no field fails.
C14_ValidateAggregates ==
    ret.op = "validate" =>
        LET d == values[ret.form]
            Fails(f) ==
                IF generation = "legacy"
                THEN ~validate(f, IF f.name \in DOMAIN d THEN d[f.name].v ELSE None).ok
                ELSE IF d[f.name].items = <<>>
                     THEN ~validate(f, None).ok
                     ELSE \E i \in DOMAIN d[f.name].items : ~validate(f, d[f.name].items[i]).ok
            failing == {fields[i].name : i \in {j \in DOMAIN fields : Fails(fields[j])}}
        IN  /\ ret.kind \in {"returned", "FormValidationError"}
            /\ ret.kind = "returned" <=> failing = {}
            /\ ret.kind = "returned" => DOMAIN ret.cleaned = declared
            /\ ret.kind = "FormValidationError" =>
                /\ {ret.errors[i].field : i \in DOMAIN ret.errors} = failing
                /\ Len(ret.errors) = Cardinality(failing)

\* the first field failed and validate still reported the second
C14_Witness ==
    /\ ret.op = "validate"
    /\ ret.kind = "FormValidationError"
    /\ Len(ret.errors) = 2
    /\ ret.errors[1].field = "x"
    /\ ret.errors[2].field = "y"

\* C15: validate of slivka_client/__init__.py returns for each field as many
\* cleaned values as were supplied, in their order, and when it raises, the
\* error lists as many entries for a field as the field has failing values.
C15_PerValueValidation ==
    (generation = "init" /\ ret.op = "validate") =>
        \A n \in declared :
            LET items == values[ret.form][n].items
                bad == {i \in DOMAIN items : ~validate(FieldOf(n), items[i]).ok}
                listed == {i \in DOMAIN ret.errors : ret.errors[i].field = n}
            IN  /\ ret.kind = "returned" =>
                    /\ Len(ret.cleaned[n].items) = Len(items)
                    /\ \A i \in DOMAIN items :
                        ret.cleaned[n].items[i] = validate(FieldOf(n), items[i]).value
                /\ (ret.kind = "FormValidationError" /\ items # <<>>) =>
                    Cardinality(listed) = Cardinality(bad)

\* C16: with no candidate and no default, validate fails with 'required'
\* exactly when the field is required, and returns None when it is not.
C16_AbsentWithoutDefault ==
    (result.impl # "none" /\ cand = None /\ fld.default = None) =>
        /\ (~result.out.ok /\ result.out.code = "required") <=> fld.required
        /\ ~fld.required => result.out = Return(None)

\* C17: a field with a default and no supplied value does not fail in
\* Form.validate, and the cleaned value returned for it is the default.
C17_DefaultIsReturned ==
    ret.op = "validate" =>
        \A n \in declared :
            (/\ FieldOf(n).default # None
             /\ IF generation = "legacy" THEN n \notin DOMAIN values[ret.form]
                ELSE values[ret.form][n].items = <<>>)
                => /\ \A i \in DOMAIN ret.errors : ret.errors[i].field # n
                   /\ ret.kind = "returned" =>
                        ret.cleaned[n] \in {ScalarCell(FieldOf(n).default),
                                            ListCell(<<FieldOf(n).default>>)}

\* C18: a Boolean field given False substitutes its default as it does for
\* None: with default True the cleaned value is True.
C18_BooleanFalseTakesDefault ==
    (/\ result.impl = "slivka_client"
     /\ fld.type = "boolean"
     /\ cand = PyBool(FALSE)
     /\ fld.default = PyBool(TRUE))
        => result.out = Return(PyBool(TRUE))

\* C19: an Integer or Decimal value equal to an inclusive bound is returned
\* unchanged; a Decimal value equal to an exclusive min fails with 'min' and
\* one equal to an exclusive max with 'max'; a value below min fails with
\* 'min' and a value above max with 'max'.
C19_BoundsInclusiveExclusive ==
    (/\ result.impl # "none"
     /\ \/ fld.type = "integer" /\ cand.kind = "int"
        \/ fld.type = "decimal" /\ cand.kind = "float")
        => /\ (fld.min # None /\ cand.n = fld.min.n /\ ~fld.min_exclusive)
                => result.out = Return(cand)
           /\ (fld.max # None /\ cand.n = fld.max.n /\ ~fld.max_exclusive)
                => result.out = Return(cand)
           /\ (fld.min # None /\ cand.n = fld.min.n /\ fld.min_exclusive)
                => result.out = ValidationError("min")
           /\ (fld.max # None /\ cand.n = fld.max.n /\ fld.max_exclusive)
                => result.out = ValidationError("max")
           /\ (fld.min # None /\ cand.n < fld.min.n) => result.out = ValidationError("min")
           /\ (fld.max # None /\ cand.n > fld.max.n) => result.out = ValidationError("max")

\* a Decimal field with both bounds refused the value of its exclusive min
C19_Witness ==
    /\ result.impl = "slivka_client"
    /\ fld.type = "decimal"
    /\ fld.min # None /\ fld.min_exclusive /\ fld.max # None
    /\ cand = fld.min
    /\ result.out = ValidationError("min")

\* C20: a Choice field accepts a present candidate exactly when it is one of
\* the choices, and the cleaned value is then the candidate itself.
C20_ChoiceReturnsCandidate ==
    (result.impl # "none" /\ fld.type = "choice" /\ cand # None) =>
        /\ result.out.ok <=> \E i \in DOMAIN fld.choices : fld.choices[i] = cand
        /\ result.out.ok => result.out.value = cand

\* C21: a present candidate whose kind is not the kind of the field fails
\* with 'value', and a range or length code is reported only for a candidate
\* of the field's kind.
C21_TypeMismatchIsValue ==
    (/\ result.impl # "none"
     /\ cand # None
     /\ fld.type \in {"integer", "decimal", "text", "boolean", "file"}) =>
        LET kind == CASE fld.type = "integer" -> "int"
                      [] fld.type = "decimal" -> "float"
                      [] fld.type = "text" -> "str"
                      [] fld.type = "boolean" -> "bool"
                      [] fld.type = "file" -> "file"
        IN  /\ cand.kind # kind => result.out = ValidationError("value")
            /\ (~result.out.ok /\ result.out.code \in {"min", "max", "min_length", "max_length"})
                    => cand.kind = kind

\* C22: submit sends a request only when every field of the form validates
\* on the values the form holds, and when one does not, submit raises the
\* form's validation error and sends nothing.
C22_SubmitOnlyAfterValidate ==
    ret.op = "submit" =>
        LET Fails(n) ==
                IF generation = "legacy"
                THEN ~validate(FieldOf(n), LegacyGet(values[ret.form], n)).ok
                ELSE LET items == SeqOf(values, heap, ret.form, n) IN
                     IF items = <<>> THEN ~validate(FieldOf(n), None).ok
                     ELSE \E i \in DOMAIN items : ~validate(FieldOf(n), items[i]).ok
            failing == {n \in declared : Fails(n)}
        IN  /\ ret.sent = 1 => failing = {}
            /\ failing # {} =>
                /\ ret.sent = 0
                /\ ret.kind \in {"ValidationError", "FormValidationError"}

\* C23: when the service rejects the submission, submit raises the form's
\* validation error, with one entry for each rejected field that carries its
\* name, code and message, and not the error of a failed request.
C23_RejectionIsValidationError ==
    (ret.op = "submit" /\ ret.response.status_code = "420") =>
        /\ ret.kind = IF generation = "form" THEN "ValidationError" ELSE "FormValidationError"
        /\ Len(ret.errors) = Len(ret.response.errors)
        /\ \A i \in DOMAIN ret.errors :
            /\ ret.errors[i].field = ret.response.errors[i].field
            /\ ret.errors[i].errorCode = ret.response.errors[i].errorCode
            /\ ret.errors[i].message = ret.response.errors[i].message

\* C24: submit of form.py sends one request, in which the keys that hold a
\* file-like value are the file parts and the others ordinary fields, and it
\* returns the job identifier when the service answers with success.
C24_FilesAndFields ==
    (generation = "form" /\ ret.op = "submit") =>
        LET data == DictUpdate(values[ret.form], ret.args)
            HoldsFile(k) ==
                \E i \in DOMAIN ItemsOf(data[k], heap) : ItemsOf(data[k], heap)[i] = IOBase
        IN  /\ ret.sent = 1
            /\ ret.files = {k \in DOMAIN data : HoldsFile(k)}
            /\ ret.response.status_code \in {"200", "202"} => ret.kind = "uuid"

\* C25: a request carries values for declared fields only, and a submit that
\* is given a value for an undeclared name raises KeyError and sends nothing.
C25_NoUndeclaredNameIsSent ==
    ret.op = "submit" =>
        /\ ret.sent = 1 =>
            DOMAIN DictUpdate(values[ret.form], ret.args) \subseteq declared
        /\ (\E i \in DOMAIN ret.args : ret.args[i].key \notin declared) =>
            (ret.kind = "KeyError" /\ ret.sent = 0)

\* ------------------------------------------------------------------------
\* More claims about the TaskWatcher
\* ------------------------------------------------------------------------

\* C26: the status request of run() and the status request of a caller of
\* TaskWatcher.get_status are never unanswered at the same time.
C26_FetchesNeverOverlap == ~(wpc = "inflight" /\ gpc = "inflight")

\* C29: when no listener raises and no status fetch fails, the watcher thread
\* does not end with an exception, whenever add_completion_listener is
\* called, and once it has ended after a ready status every listener that was
\* registered before the start has been invoked exactly once.
C29_AddListenerWhileRunning ==
    (~h_raised /\ ~h_error) =>
        /\ wpc # "raised"
        /\ (Terminated /\ status = "ready") => \A l \in h_pre : calls[l] = 1

\* ------------------------------------------------------------------------
\* More claims about the forms
\* ------------------------------------------------------------------------

\* C27: a call of validate leaves the value map of every form as it was, keys
\* and sequences, and a validate that follows a validate of the same form
\* has the same outcome.
C27_ValidateChangesNothing ==
    [][ret'.op = "validate" =>
        /\ values' = values
        /\ (ret.op = "validate" /\ ret.form = ret'.form) => ret' = ret]_vars

\* C28: an insert that names an undeclared field raises KeyError and leaves
\* the values of every form as they were before the call.
C28_InsertAllOrNothing ==
    [][(/\ ret'.op = "insert"
        /\ \E i \in DOMAIN ret'.args : ret'.args[i].key \notin declared)
            => (ret'.kind = "KeyError" /\ values' = values)]_vars

\* ------------------------------------------------------------------------
\* Claims about the command line
\* ------------------------------------------------------------------------

\* C30: with downloading enabled, a path that exists is not written when
\* --overwrite is 'no', is written only if the user confirmed when it is
\* 'prompt', and is not skipped when it is 'yes'; a path that does not exist
\* is not skipped.
C30_OverwriteOption ==
    \A i \in DOMAIN job_files :
        (download /\ outcome[i] # "none") =>
            /\ (existed[i] = "true" /\ overwrite = "no") => outcome[i] # "written"
            /\ (existed[i] = "true" /\ overwrite = "prompt" /\ outcome[i] = "written")
                    => answer[i] = "true"
            /\ (existed[i] = "true" /\ overwrite = "yes") => outcome[i] \in {"written", "failed"}
            /\ existed[i] = "false" => outcome[i] \in {"written", "failed"}

====
